---- MODULE Spec2Model ----
(***************************************************************************)
(* Model of src/distributed_timeline_reconstructor.py: the batch pipeline  *)
(* process_logs (validate, index, orphans, group, completeness, Kahn sort  *)
(* per trace, clock-skew count, merge, report) over a list of raw JSON     *)
(* log records.                                                            *)
(*                                                                         *)
(* A Python object reference to a log dict is modelled by the record's     *)
(* position in raw_logs (1..Len(raw_logs)); every derived list, dict and   *)
(* set of logs holds positions, so two raw records with equal contents     *)
(* stay two records, as they are two dict objects in the program.          *)
(***************************************************************************)
EXTENDS Integers, Sequences, FiniteSets, TLC

(***************************************************************************)
(* JSON values as json.load yields them, tagged with their Python type.    *)
(* k: "str" | "num" (int or float) | "bool" | "null" (None) | "obj" (dict) *)
(* | "list" | "absent" (the key is not in the dict).                       *)
(***************************************************************************)
Str(x) == [k |-> "str", s |-> x, n |-> 0]
Num(x) == [k |-> "num", s |-> "", n |-> x]
\* Python's True/False: bool is a subclass of int, True == 1, False == 0.
BoolV(b) == [k |-> "bool", s |-> "", n |-> IF b THEN 1 ELSE 0]
NoneV == [k |-> "null", s |-> "", n |-> 0]
Obj == [k |-> "obj", s |-> "", n |-> 0]
ListV == [k |-> "list", s |-> "", n |-> 0]
Absent == [k |-> "absent", s |-> "", n |-> 0]

REQUIRED_FIELDS ==
    <<"log_id", "trace_id", "node_id", "event_type",
      "timestamp_ms", "logical_clock", "payload", "causal_ref">>

VALID_EVENT_TYPES == {"INIT", "PROCESS", "END"}

\* A raw element of raw_logs: a dict with (some of) the eight fields, or
\* something that is not a dict (isdict = FALSE).
RawLog(isdict, id, tr, nd, et, ts, lc, pl, cr) ==
    [isdict |-> isdict, log_id |-> id, trace_id |-> tr, node_id |-> nd,
     event_type |-> et, timestamp_ms |-> ts, logical_clock |-> lc,
     payload |-> pl, causal_ref |-> cr]

\* isinstance(v, str)
IsStr(v) == v.k = "str"
\* isinstance(v, (int, float)): a bool is an int in Python.
IsNumber(v) == v.k \in {"num", "bool"}
\* isinstance(v, dict)
IsDict(v) == v.k = "obj"
\* log.get(field): None when the key is absent.
Get(log, field) == IF log[field].k = "absent" THEN NoneV ELSE log[field]
\* field in log
Has(log, field) == log[field].k # "absent"
\* hash(v) raises TypeError for a list or a dict.
Unhashable(v) == v.k \in {"obj", "list"}

(***************************************************************************)
(* validate_log: (is_valid, log_id or None).  raises = TRUE models the     *)
(* TypeError of `x not in VALID_EVENT_TYPES` for an unhashable x, which    *)
(* nothing catches: it ends the run.                                       *)
(***************************************************************************)
Verdict(valid, log_id, raises) ==
    [valid |-> valid, log_id |-> log_id, raises |-> raises]

validate_log(log) ==
    IF ~log.isdict THEN Verdict(FALSE, NoneV, FALSE)
    ELSE LET log_id == Get(log, "log_id") IN
    IF ~IsStr(log_id) \/ log_id.s = "" THEN Verdict(FALSE, NoneV, FALSE)
    ELSE IF \E f \in 1..Len(REQUIRED_FIELDS) : ~Has(log, REQUIRED_FIELDS[f])
         THEN Verdict(FALSE, log_id, FALSE)
    ELSE IF ~IsStr(Get(log, "trace_id")) \/ Get(log, "trace_id").s = ""
         THEN Verdict(FALSE, log_id, FALSE)
    ELSE IF ~IsStr(Get(log, "node_id")) THEN Verdict(FALSE, log_id, FALSE)
    ELSE IF Unhashable(Get(log, "event_type")) THEN Verdict(FALSE, log_id, TRUE)
    ELSE IF ~(IsStr(Get(log, "event_type"))
              /\ Get(log, "event_type").s \in VALID_EVENT_TYPES)
         THEN Verdict(FALSE, log_id, FALSE)
    ELSE IF ~IsNumber(Get(log, "timestamp_ms")) THEN Verdict(FALSE, log_id, FALSE)
    ELSE IF ~IsNumber(Get(log, "logical_clock")) THEN Verdict(FALSE, log_id, FALSE)
    ELSE IF ~IsDict(Get(log, "payload")) THEN Verdict(FALSE, log_id, FALSE)
    ELSE IF Get(log, "causal_ref").k # "null" /\ ~IsStr(Get(log, "causal_ref"))
         THEN Verdict(FALSE, log_id, FALSE)
    ELSE Verdict(TRUE, log_id, FALSE)

VARIABLES
    raw_logs,           \* data['raw_logs'] as read from the input file
    pc,                 \* the step of process_logs that runs next
    valid_logs,         \* list of positions of the accepted records
    malformed_logs,     \* list of log_id strings of rejected records
    log_index,          \* dict log_id -> position
    orphaned_log_ids,   \* set of log_id strings
    traces,             \* dict trace_id -> list, in insertion order
    corrupted_traces,   \* list of trace_id strings
    complete_traces,    \* dict trace_id -> list, in insertion order
    all_sorted_traces,  \* list of (trace_id, sorted_trace)
    clock_skew_count,
    sorted_timeline,    \* list of positions
    output              \* the report written to the output file

vars == <<raw_logs, pc, valid_logs, malformed_logs, log_index,
          orphaned_log_ids, traces, corrupted_traces, complete_traces,
          all_sorted_traces, clock_skew_count, sorted_timeline, output>>

\* Field access on an accepted record (a position in raw_logs).
LogId(i) == raw_logs[i].log_id.s
TraceId(i) == raw_logs[i].trace_id.s
EventType(i) == raw_logs[i].event_type.s
Timestamp(i) == raw_logs[i].timestamp_ms.n
LogicalClock(i) == raw_logs[i].logical_clock.n
\* log.get('causal_ref'): NoneV or a Str value
CausalRef(i) == Get(raw_logs[i], "causal_ref")

Range(q) == {q[k] : k \in 1..Len(q)}

\* A Python dict that keeps insertion order: a list of [key, val] entries.
Keys(d) == {d[k].key : k \in 1..Len(d)}
Lookup(d, key) == (CHOOSE k \in 1..Len(d) : d[k].key = key)
DictGet(d, key) == d[Lookup(d, key)].val

(***************************************************************************)
(* build_log_index: {log['log_id']: log for log in valid_logs}; a later    *)
(* record with the same id replaces the earlier entry.                     *)
(***************************************************************************)
RECURSIVE IndexFold(_, _, _)
IndexFold(logs, k, idx) ==
    IF k > Len(logs) THEN idx
    ELSE IndexFold(logs, k + 1,
                   [x \in DOMAIN idx \cup {LogId(logs[k])} |->
                       IF x = LogId(logs[k]) THEN logs[k] ELSE idx[x]])

build_log_index(logs) == IndexFold(logs, 1, <<>>)

(***************************************************************************)
(* group_by_trace: defaultdict(list), appended to in input order.          *)
(***************************************************************************)
RECURSIVE GroupFold(_, _, _)
GroupFold(logs, k, d) ==
    IF k > Len(logs) THEN d
    ELSE LET t == TraceId(logs[k]) IN
         GroupFold(logs, k + 1,
            IF t \in Keys(d)
            THEN [d EXCEPT ![Lookup(d, t)].val = Append(@, logs[k])]
            ELSE Append(d, [key |-> t, val |-> <<logs[k]>>]))

group_by_trace(logs) == GroupFold(logs, 1, <<>>)

\* Variant: the reference looked up among the ids of the record's own trace.
detect_orphaned_logs_Local(logs, idx) ==
    {LogId(logs[k]) : k \in {j \in 1..Len(logs) :
        /\ CausalRef(logs[j]).k # "null"
        /\ ~\E m \in 1..Len(logs) :
              /\ TraceId(logs[m]) = TraceId(logs[j])
              /\ LogId(logs[m]) = CausalRef(logs[j]).s}}

(***************************************************************************)
(* detect_orphaned_logs: ids of records whose causal_ref is not None and   *)
(* not a key of the index.                                                 *)
(***************************************************************************)
detect_orphaned_logs(logs, idx) ==
    {LogId(logs[k]) : k \in {j \in 1..Len(logs) :
        /\ CausalRef(logs[j]).k # "null"
        /\ CausalRef(logs[j]).s \notin DOMAIN idx}}

\* Variant: <= for <.
detect_clock_skew_NonStrict(log, parent_log) ==
    Timestamp(log) <= Timestamp(parent_log)

\* detect_clock_skew(log, parent_log)
detect_clock_skew(log, parent_log) == Timestamp(log) < Timestamp(parent_log)

\* Variant: the END check of lines 161-163 left out.
check_trace_completeness_NoEnd(trace_logs, idx) ==
    IF ~\E k \in 1..Len(trace_logs) : EventType(trace_logs[k]) = "INIT"
    THEN <<FALSE, "missing_init">>
    ELSE IF \E k \in 1..Len(trace_logs) :
               /\ CausalRef(trace_logs[k]).k # "null"
               /\ CausalRef(trace_logs[k]).s \notin DOMAIN idx
    THEN <<FALSE, "broken_causal_chain">>
    ELSE <<TRUE, "complete">>

\* Variant: line 173 tests trace_log_ids (line 166) for log_index.
check_trace_completeness_Local(trace_logs, idx) ==
    IF ~\E k \in 1..Len(trace_logs) : EventType(trace_logs[k]) = "INIT"
    THEN <<FALSE, "missing_init">>
    ELSE IF ~\E k \in 1..Len(trace_logs) : EventType(trace_logs[k]) = "END"
    THEN <<FALSE, "missing_end">>
    ELSE IF \E k \in 1..Len(trace_logs) :
               /\ CausalRef(trace_logs[k]).k # "null"
               /\ CausalRef(trace_logs[k]).s \notin
                     {LogId(trace_logs[j]) : j \in 1..Len(trace_logs)}
    THEN <<FALSE, "broken_causal_chain">>
    ELSE <<TRUE, "complete">>

(***************************************************************************)
(* check_trace_completeness: (is_complete, reason).                        *)
(***************************************************************************)
check_trace_completeness(trace_logs, idx) ==
    IF ~\E k \in 1..Len(trace_logs) : EventType(trace_logs[k]) = "INIT"
    THEN <<FALSE, "missing_init">>
    ELSE IF ~\E k \in 1..Len(trace_logs) : EventType(trace_logs[k]) = "END"
    THEN <<FALSE, "missing_end">>
    ELSE IF \E k \in 1..Len(trace_logs) :
               /\ CausalRef(trace_logs[k]).k # "null"
               /\ CausalRef(trace_logs[k]).s \notin DOMAIN idx
    THEN <<FALSE, "broken_causal_chain">>
    ELSE <<TRUE, "complete">>

(***************************************************************************)
(* list.sort(key=lambda x: (x['logical_clock'], x['timestamp_ms'])):       *)
(* a stable sort, tuples compared lexicographically.                       *)
(***************************************************************************)
\* Variant: the key's two fields swapped.
SortKey_TimestampFirst(i) == <<Timestamp(i), LogicalClock(i)>>

SortKey(i) == <<LogicalClock(i), Timestamp(i)>>

KeyLess(a, b) == a[1] < b[1] \/ (a[1] = b[1] /\ a[2] < b[2])

\* Insert x after every element whose key is not greater (stability).
RECURSIVE InsertByKey(_, _)
InsertByKey(q, x) ==
    IF q = <<>> THEN <<x>>
    ELSE IF KeyLess(SortKey(x), SortKey(Head(q))) THEN <<x>> \o q
    ELSE <<Head(q)>> \o InsertByKey(Tail(q), x)

RECURSIVE SortFold(_, _, _)
SortFold(q, k, acc) ==
    IF k > Len(q) THEN acc ELSE SortFold(q, k + 1, InsertByKey(acc, q[k]))

SortByKey(q) == SortFold(q, 1, <<>>)

(***************************************************************************)
(* topological_sort_trace: Kahn's algorithm over the trace-local edges.    *)
(* in_degree and graph are keyed by log_id; log_dict keeps the last record *)
(* of the trace with each id.                                              *)
(***************************************************************************)
TraceLogIds(trace_logs) == {LogId(trace_logs[k]) : k \in 1..Len(trace_logs)}

\* causal_ref is not None and causal_ref in trace_log_ids
HasLocalRef(trace_logs, i) ==
    /\ CausalRef(i).k # "null"
    /\ CausalRef(i).s \in TraceLogIds(trace_logs)

\* Variant: the increments of line 202 left out.
InitialInDegree_Zero(trace_logs) == [x \in TraceLogIds(trace_logs) |-> 0]

\* lines 195-202: one increment per record with a trace-local reference
InitialInDegree(trace_logs) ==
    [x \in TraceLogIds(trace_logs) |->
        Cardinality({k \in 1..Len(trace_logs) :
            /\ LogId(trace_logs[k]) = x
            /\ HasLocalRef(trace_logs, trace_logs[k])})]

\* graph[parent]: the child ids appended in the order of trace_logs
Graph(trace_logs) ==
    [x \in TraceLogIds(trace_logs) |->
        LET kids == SelectSeq(trace_logs,
                        LAMBDA i : HasLocalRef(trace_logs, i) /\ CausalRef(i).s = x)
        IN [k \in 1..Len(kids) |-> LogId(kids[k])]]

\* log_dict = {log['log_id']: log for log in trace_logs}
LogDict(trace_logs) == build_log_index(trace_logs)

\* Variant: the decrement of line 228 left out.
ReleaseChildren_NoDecrement(children, k, st, log_dict) ==
    [deg |-> st.deg,
     batch |-> SelectSeq([j \in 1..Len(children) |-> log_dict[children[j]]],
                         LAMBDA i : st.deg[LogId(i)] = 0)]

\* lines 227-230: the loop over the children of the emitted record;
\* st = [deg, batch]
RECURSIVE ReleaseChildren(_, _, _, _)
ReleaseChildren(children, k, st, log_dict) ==
    IF k > Len(children) THEN st
    ELSE LET c == children[k]
             d == st.deg[c] - 1
         IN ReleaseChildren(children, k + 1,
                [deg |-> [st.deg EXCEPT ![c] = d],
                 batch |-> IF d = 0 THEN Append(st.batch, log_dict[c])
                           ELSE st.batch],
                log_dict)

\* lines 218-235: the while loop
RECURSIVE KahnLoop(_, _, _, _, _)
KahnLoop(queue, in_degree, sorted_logs, graph, log_dict) ==
    IF queue = <<>> THEN sorted_logs
    ELSE LET current == Head(queue)
             st == ReleaseChildren(graph[LogId(current)], 1,
                                   [deg |-> in_degree, batch |-> <<>>], log_dict)
         IN KahnLoop(Tail(queue) \o SortByKey(st.batch), st.deg,
                     Append(sorted_logs, current), graph, log_dict)

topological_sort_trace(trace_logs, idx) ==
    LET in_degree == InitialInDegree(trace_logs)
        queue == SortByKey(SelectSeq(trace_logs,
                               LAMBDA i : in_degree[LogId(i)] = 0))
    IN KahnLoop(queue, in_degree, <<>>, Graph(trace_logs), LogDict(trace_logs))

(***************************************************************************)
(* process_logs, step by step.                                             *)
(***************************************************************************)

\* lines 260-269: st = [valid, malformed, raised]
RECURSIVE ValidateFold(_, _, _)
ValidateFold(logs, k, st) ==
    IF k > Len(logs) \/ st.raised THEN st
    ELSE LET v == validate_log(logs[k]) IN
         ValidateFold(logs, k + 1,
            IF v.raises THEN [st EXCEPT !.raised = TRUE]
            ELSE IF v.valid THEN [st EXCEPT !.valid = Append(@, k)]
            ELSE IF v.log_id.k = "str" /\ v.log_id.s # ""
                 THEN [st EXCEPT !.malformed = Append(@, v.log_id.s)]
            ELSE st)

Validate ==
    /\ pc = "validate"
    /\ LET st == ValidateFold(raw_logs, 1,
                    [valid |-> <<>>, malformed |-> <<>>, raised |-> FALSE])
       IN IF st.raised
          THEN /\ pc' = "crashed"
               /\ UNCHANGED <<valid_logs, malformed_logs>>
          ELSE /\ pc' = "index"
               /\ valid_logs' = st.valid
               /\ malformed_logs' = st.malformed
    /\ UNCHANGED <<raw_logs, log_index, orphaned_log_ids, traces,
                   corrupted_traces, complete_traces, all_sorted_traces,
                   clock_skew_count, sorted_timeline, output>>

\* line 275
BuildIndex ==
    /\ pc = "index"
    /\ log_index' = build_log_index(valid_logs)
    /\ pc' = "orphans"
    /\ UNCHANGED <<raw_logs, valid_logs, malformed_logs, orphaned_log_ids,
                   traces, corrupted_traces, complete_traces,
                   all_sorted_traces, clock_skew_count, sorted_timeline, output>>

\* line 279
DetectOrphans ==
    /\ pc = "orphans"
    /\ orphaned_log_ids' = detect_orphaned_logs(valid_logs, log_index)
    /\ pc' = "group"
    /\ UNCHANGED <<raw_logs, valid_logs, malformed_logs, log_index, traces,
                   corrupted_traces, complete_traces, all_sorted_traces,
                   clock_skew_count, sorted_timeline, output>>

\* line 284
GroupByTrace ==
    /\ pc = "group"
    /\ traces' = group_by_trace(valid_logs)
    /\ pc' = "completeness"
    /\ UNCHANGED <<raw_logs, valid_logs, malformed_logs, log_index,
                   orphaned_log_ids, corrupted_traces, complete_traces,
                   all_sorted_traces, clock_skew_count, sorted_timeline, output>>

\* lines 289-298
IsComplete(entry) == check_trace_completeness(entry.val, log_index)[1]

CheckCompleteness ==
    /\ pc = "completeness"
    /\ complete_traces' = SelectSeq(traces, IsComplete)
    /\ corrupted_traces' =
          LET bad == SelectSeq(traces, LAMBDA e : ~IsComplete(e))
          IN [k \in 1..Len(bad) |-> bad[k].key]
    /\ pc' = "sort"
    /\ UNCHANGED <<raw_logs, valid_logs, malformed_logs, log_index,
                   orphaned_log_ids, traces, all_sorted_traces,
                   clock_skew_count, sorted_timeline, output>>

\* lines 313-318: the skew events of one sorted trace
SkewEvents(sorted_trace) ==
    Cardinality({k \in 1..Len(sorted_trace) :
        /\ CausalRef(sorted_trace[k]).k # "null"
        /\ CausalRef(sorted_trace[k]).s \in DOMAIN log_index
        /\ detect_clock_skew(sorted_trace[k],
                             log_index[CausalRef(sorted_trace[k]).s])})

RECURSIVE SumSkew(_, _)
SumSkew(sorted_traces, k) ==
    IF k > Len(sorted_traces) THEN 0
    ELSE SkewEvents(sorted_traces[k].val) + SumSkew(sorted_traces, k + 1)

\* lines 304-318
SortTraces ==
    /\ pc = "sort"
    /\ all_sorted_traces' =
          [k \in 1..Len(complete_traces) |->
              [key |-> complete_traces[k].key,
               val |-> topological_sort_trace(complete_traces[k].val, log_index)]]
    /\ clock_skew_count' = SumSkew(all_sorted_traces', 1)
    /\ pc' = "merge"
    /\ UNCHANGED <<raw_logs, valid_logs, malformed_logs, log_index,
                   orphaned_log_ids, traces, corrupted_traces,
                   complete_traces, sorted_timeline, output>>

\* min(log['timestamp_ms'] for log in x[1]) if x[1] else float('inf')
MinTimestamp(q) ==
    CHOOSE m \in {Timestamp(q[k]) : k \in 1..Len(q)} :
        \A k \in 1..Len(q) : m <= Timestamp(q[k])

\* Variant: the timestamp of the trace's first sorted record, not the least.
MergeKey_First(entry) ==
    IF entry.val = <<>> THEN [inf |-> TRUE, v |-> 0]
    ELSE [inf |-> FALSE, v |-> Timestamp(entry.val[1])]

MergeKey(entry) ==
    IF entry.val = <<>> THEN [inf |-> TRUE, v |-> 0]
    ELSE [inf |-> FALSE, v |-> MinTimestamp(entry.val)]

MergeKeyLess(a, b) == ~a.inf /\ (b.inf \/ a.v < b.v)

\* all_sorted_traces.sort(key=...): stable
RECURSIVE InsertTrace(_, _)
InsertTrace(q, x) ==
    IF q = <<>> THEN <<x>>
    ELSE IF MergeKeyLess(MergeKey(x), MergeKey(Head(q))) THEN <<x>> \o q
    ELSE <<Head(q)>> \o InsertTrace(Tail(q), x)

RECURSIVE SortTracesFold(_, _, _)
SortTracesFold(q, k, acc) ==
    IF k > Len(q) THEN acc ELSE SortTracesFold(q, k + 1, InsertTrace(acc, q[k]))

RECURSIVE Concat(_, _)
Concat(q, k) == IF k > Len(q) THEN <<>> ELSE q[k].val \o Concat(q, k + 1)

\* lines 321-326
Merge ==
    /\ pc = "merge"
    /\ all_sorted_traces' = SortTracesFold(all_sorted_traces, 1, <<>>)
    /\ sorted_timeline' = Concat(all_sorted_traces', 1)
    /\ pc' = "report"
    /\ UNCHANGED <<raw_logs, valid_logs, malformed_logs, log_index,
                   orphaned_log_ids, traces, corrupted_traces,
                   complete_traces, clock_skew_count, output>>

\* Python's order on the strings the model uses.
Alphabet == <<"a", "b", "c", "d", "t1", "t2", "z">>
StrRank(x) == CHOOSE k \in 1..Len(Alphabet) : Alphabet[k] = x
StrLess(x, y) == StrRank(x) < StrRank(y)

RECURSIVE InsertStr(_, _)
InsertStr(q, x) ==
    IF q = <<>> THEN <<x>>
    ELSE IF StrLess(x, Head(q)) THEN <<x>> \o q
    ELSE <<Head(q)>> \o InsertStr(Tail(q), x)

RECURSIVE SortedFold(_, _, _)
SortedFold(q, k, acc) ==
    IF k > Len(q) THEN acc ELSE SortedFold(q, k + 1, InsertStr(acc, q[k]))

\* sorted(list of str)
Sorted(q) == SortedFold(q, 1, <<>>)

\* lines 332-340
Report ==
    /\ pc = "report"
    /\ output' =
          [sorted_timeline |-> sorted_timeline,
           corrupted_traces |-> Sorted(corrupted_traces),
           orphaned_logs_count |-> Cardinality(orphaned_log_ids),
           clock_skew_events_count |-> clock_skew_count,
           malformed_logs |-> Sorted(malformed_logs)]
    /\ pc' = "done"
    /\ UNCHANGED <<raw_logs, valid_logs, malformed_logs, log_index,
                   orphaned_log_ids, traces, corrupted_traces,
                   complete_traces, all_sorted_traces, clock_skew_count,
                   sorted_timeline>>

NoOutput ==
    [sorted_timeline |-> <<>>, corrupted_traces |-> <<>>,
     orphaned_logs_count |-> 0, clock_skew_events_count |-> 0,
     malformed_logs |-> <<>>]

(***************************************************************************)
(* The inputs.  Ids and trace ids are named in order of first appearance   *)
(* (renaming them changes nothing the pipeline computes except the order   *)
(* of the two sorted report lists), "z" is an id no record carries.        *)
(***************************************************************************)
MaxLogs == 3
MaxTs == 2
MaxClock == 2

IdNames == <<"a", "b", "c", "d">>
TraceNames == <<"t1", "t2">>

\* Labellings of 1..n by 1..m in order of first appearance.
Growth(n, m) ==
    {p \in [1..n -> 1..m] :
        \A i \in 1..n : \A v \in 1..(p[i] - 1) : \E j \in 1..(i - 1) : p[j] = v}

\* causal_ref values: null, an id of the input, or the dangling id.
Refs(used) == {NoneV} \cup {Str(IdNames[u]) : u \in used} \cup {Str("z")}

\* A record every check of validate_log accepts.
WellFormed(id, tr, et, ts, lc, cr) ==
    RawLog(TRUE, Str(id), Str(tr), Str("n1"), Str(et), Num(ts), Num(lc), Obj, cr)

\* The same record without its payload key.
NoPayload(id, tr, cr) ==
    RawLog(TRUE, Str(id), Str(tr), Str("n1"), Str("INIT"), Num(1), Num(1), Absent, cr)

Shapes == VALID_EVENT_TYPES \cup {"nopayload"}

\* Up to MaxLogs records with distinct ids, any event types, traces and
\* references, some of them malformed.
InitCompleteness ==
    \E n \in 0..MaxLogs :
    \E tr \in Growth(n, 2) :
    \E sh \in [1..n -> Shapes] :
    \E cr \in [1..n -> Refs(1..n)] :
        raw_logs = [i \in 1..n |->
            IF sh[i] = "nopayload"
            THEN NoPayload(IdNames[i], TraceNames[tr[i]], cr[i])
            ELSE WellFormed(IdNames[i], TraceNames[tr[i]], sh[i], 1, 1, cr[i])]

SortEventTypes == <<"INIT", "END", "PROCESS", "PROCESS">>

\* Up to MaxLogs records, ids possibly shared, any clocks, timestamps and
\* references; the first two records open and close trace t1, the last may
\* belong to another trace.
InitSorting ==
    \E n \in 1..MaxLogs :
    \E id \in Growth(n, n) :
    \E last \in 1..2 :
    \E lc \in [1..n -> 1..MaxClock] :
    \E ts \in [1..n -> 1..MaxTs] :
    \E cr \in [1..n -> Refs(1..n)] :
        raw_logs = [i \in 1..n |->
            WellFormed(IdNames[id[i]],
                       TraceNames[IF i = n /\ n > 2 THEN last ELSE 1],
                       SortEventTypes[i], ts[i], lc[i], cr[i])]

\* Two traces of an INIT and an END record each, interleaved in any way,
\* each record a root, a self reference or a reference to any record.
TracePatterns == {<<1, 1, 2, 2>>, <<1, 2, 1, 2>>, <<1, 2, 2, 1>>}

InitMerge ==
    \E tr \in TracePatterns :
    \E ts \in [1..4 -> 1..MaxTs] :
    \E cr \in [1..4 -> {0, 1, 2}] :
        raw_logs = [i \in 1..4 |->
            LET first == \A j \in 1..(i - 1) : tr[j] # tr[i]
                mate == CHOOSE j \in 1..4 : j # i /\ tr[j] = tr[i]
            IN WellFormed(IdNames[i], TraceNames[tr[i]],
                          IF first THEN "INIT" ELSE "END", ts[i], 1,
                          CASE cr[i] = 0 -> NoneV
                            [] cr[i] = 1 -> Str(IdNames[i])
                            [] OTHER -> Str(IdNames[mate]))]

\* What json.load can put under each key.
FieldValues ==
    [log_id |-> {Str("a"), Str(""), Num(1), NoneV, Absent},
     trace_id |-> {Str("t1"), Str(""), Num(1), NoneV, Absent},
     node_id |-> {Str("n1"), Str(""), Num(1), NoneV, Absent},
     event_type |-> {Str("INIT"), Str("PROCESS"), Str("END"), Str("START"),
                     Num(1), NoneV, ListV, Obj, Absent},
     timestamp_ms |-> {Num(1), Num(2), BoolV(TRUE), Str("a"), NoneV, Absent},
     logical_clock |-> {Num(1), Num(2), BoolV(TRUE), Str("a"), NoneV, Absent},
     payload |-> {Obj, ListV, Str("a"), NoneV, Absent},
     causal_ref |-> {NoneV, Str("a"), Str("z"), Str(""), Num(1), ListV, Absent}]

NotADict ==
    RawLog(FALSE, Absent, Absent, Absent, Absent, Absent, Absent, Absent, Absent)

\* A well-formed record with up to two of its fields replaced.
Deviants ==
    {[WellFormed("a", "t1", "INIT", 1, 1, NoneV) EXCEPT ![f] = v, ![g] = w] :
        <<f, v, g, w>> \in
            UNION {UNION {{f} \X FieldValues[f] \X {g} \X FieldValues[g] :
                              g \in DOMAIN FieldValues} :
                       f \in DOMAIN FieldValues}}

Companions ==
    {NotADict, NoPayload("a", "t1", NoneV), NoPayload("b", "t1", NoneV),
     WellFormed("b", "t1", "END", 1, 1, Str("a"))}

\* One record of any shape, alone or before or after a second record.
InitValidation ==
    \E r \in Deviants \cup {NotADict} :
        \/ raw_logs = <<r>>
        \/ \E c \in Companions : raw_logs = <<r, c>> \/ raw_logs = <<c, r>>

Init ==
    /\ \/ InitCompleteness
       \/ InitSorting
       \/ InitMerge
       \/ InitValidation
    /\ pc = "validate"
    /\ valid_logs = <<>>
    /\ malformed_logs = <<>>
    /\ log_index = <<>>
    /\ orphaned_log_ids = {}
    /\ traces = <<>>
    /\ corrupted_traces = <<>>
    /\ complete_traces = <<>>
    /\ all_sorted_traces = <<>>
    /\ clock_skew_count = 0
    /\ sorted_timeline = <<>>
    /\ output = NoOutput

Next ==
    \/ Validate
    \/ BuildIndex
    \/ DetectOrphans
    \/ GroupByTrace
    \/ CheckCompleteness
    \/ SortTraces
    \/ Merge
    \/ Report

Spec == Init /\ [][Next]_vars

(***************************************************************************)
(* Vocabulary of the properties.                                           *)
(***************************************************************************)
\* topological_sort_trace has run on every complete trace.
SortDone == pc \in {"merge", "report", "done"}

\* x has the smaller (logical_clock, timestamp_ms) key: logical clock first,
\* timestamp second.
KeyBefore(x, y) ==
    \/ LogicalClock(x) < LogicalClock(y)
    \/ LogicalClock(x) = LogicalClock(y) /\ Timestamp(x) < Timestamp(y)

\* x comes strictly before y in the list q.
Before(q, x, y) == \E i, j \in 1..Len(q) : i < j /\ q[i] = x /\ q[j] = y

NoRepeat(q) == \A i, j \in 1..Len(q) : q[i] = q[j] => i = j

DistinctIds(trace_logs) ==
    \A i, j \in 1..Len(trace_logs) :
        LogId(trace_logs[i]) = LogId(trace_logs[j]) => i = j

\* The trace-local edge A -> B: B.causal_ref is A's id, A and B records of
\* the trace.
Edge(trace_logs, A, B) ==
    /\ A \in Range(trace_logs)
    /\ B \in Range(trace_logs)
    /\ CausalRef(B).k = "str"
    /\ CausalRef(B).s = LogId(A)

\* The records of the trace that B can be reached from along edges.
RECURSIVE Ancestors(_, _, _)
Ancestors(trace_logs, found, fuel) ==
    LET more == found \cup {A \in Range(trace_logs) :
                               \E B \in found : Edge(trace_logs, A, B)}
    IN IF fuel = 0 \/ more = found THEN found
       ELSE Ancestors(trace_logs, more, fuel - 1)

IsAncestor(trace_logs, A, B) ==
    A \in Ancestors(trace_logs,
                    {P \in Range(trace_logs) : Edge(trace_logs, P, B)},
                    Len(trace_logs))

\* The sorted output of the complete trace with this id.
SortedOf(trace_id) == DictGet(all_sorted_traces, trace_id)

(***************************************************************************)
(* C1, as stated: in the sorted output of every complete trace, for every  *)
(* trace-local edge A -> B, A appears strictly before B.  (Stated on the   *)
(* traces whose ids are pairwise distinct, so that a violation owes        *)
(* nothing to shared ids.)                                                 *)
(***************************************************************************)
C1_Original ==
    SortDone =>
        \A t \in 1..Len(complete_traces) :
            DistinctIds(complete_traces[t].val) =>
                \A A, B \in Range(complete_traces[t].val) :
                    Edge(complete_traces[t].val, A, B) =>
                        Before(SortedOf(complete_traces[t].key), A, B)

(***************************************************************************)
(* C1, amended: in the sorted output of a complete trace whose records     *)
(* have pairwise distinct ids, for every trace-local edge A -> B whose     *)
(* successor B is in the output, A appears strictly before B (a record on  *)
(* a trace-local cycle, or downstream of one, is not in the output).       *)
(***************************************************************************)
C1_TopologicalValidity ==
    SortDone =>
        \A t \in 1..Len(complete_traces) :
            DistinctIds(complete_traces[t].val) =>
                \A A, B \in Range(complete_traces[t].val) :
                    /\ Edge(complete_traces[t].val, A, B)
                    /\ B \in Range(SortedOf(complete_traces[t].key))
                    => Before(SortedOf(complete_traces[t].key), A, B)

\* A complete trace with distinct ids and an edge A -> B where B precedes A
\* in the input and has the smaller sort key, and the output has A before B.
C1_Witness ==
    /\ SortDone
    /\ \E t \in 1..Len(complete_traces) :
          /\ DistinctIds(complete_traces[t].val)
          /\ \E A, B \in Range(complete_traces[t].val) :
                /\ Edge(complete_traces[t].val, A, B)
                /\ B < A
                /\ KeyBefore(B, A)
                /\ Before(SortedOf(complete_traces[t].key), A, B)

\* The trace-local predecessors of B.
LocalParents(trace_logs, B) == {A \in Range(trace_logs) : Edge(trace_logs, A, B)}

(***************************************************************************)
(* C2, as stated: in the sorted output of a complete trace, two records    *)
(* neither of which is a trace-local ancestor of the other, with distinct  *)
(* (logical_clock, timestamp_ms) keys, appear in ascending key order.      *)
(* (Stated on the traces whose ids are pairwise distinct, so that a        *)
(* violation owes nothing to shared ids.)                                  *)
(***************************************************************************)
C2_Original ==
    SortDone =>
        \A t \in 1..Len(complete_traces) :
            LET tl == complete_traces[t].val
                out == SortedOf(complete_traces[t].key)
            IN DistinctIds(tl) =>
                \A X, Y \in Range(out) :
                    /\ ~IsAncestor(tl, X, Y)
                    /\ ~IsAncestor(tl, Y, X)
                    /\ KeyBefore(X, Y)
                    => Before(out, X, Y)

(***************************************************************************)
(* C2, amended: in the sorted output of a complete trace whose records     *)
(* have pairwise distinct ids, two records that have the same trace-local  *)
(* predecessor, or both have none, and distinct (logical_clock,            *)
(* timestamp_ms) keys appear in ascending key order, whatever their order  *)
(* in the input.  (The key orders the records released together, not all   *)
(* causally unordered records.)                                            *)
(***************************************************************************)
C2_TieBreak ==
    SortDone =>
        \A t \in 1..Len(complete_traces) :
            LET tl == complete_traces[t].val
                out == SortedOf(complete_traces[t].key)
            IN DistinctIds(tl) =>
                \A X, Y \in Range(out) :
                    /\ LocalParents(tl, X) = LocalParents(tl, Y)
                    /\ KeyBefore(X, Y)
                    => Before(out, X, Y)

\* Two children of one record, the one with the greater key first in the
\* input, the keys equal in logical_clock, and the output in key order.
C2_Witness ==
    /\ SortDone
    /\ \E t \in 1..Len(complete_traces) :
          LET tl == complete_traces[t].val
              out == SortedOf(complete_traces[t].key)
          IN /\ DistinctIds(tl)
             /\ \E X, Y \in Range(out) :
                   /\ LocalParents(tl, X) = LocalParents(tl, Y)
                   /\ LocalParents(tl, X) # {}
                   /\ Y < X
                   /\ LogicalClock(X) = LogicalClock(Y)
                   /\ Timestamp(X) < Timestamp(Y)
                   /\ Before(out, X, Y)

\* r is on a trace-local causal cycle or a trace-local descendant of one.
Stuck(trace_logs, r) ==
    \/ IsAncestor(trace_logs, r, r)
    \/ \E A \in Range(trace_logs) :
          IsAncestor(trace_logs, A, r) /\ IsAncestor(trace_logs, A, A)

Acyclic(trace_logs) == \A r \in Range(trace_logs) : ~Stuck(trace_logs, r)

\* The number of places of the list q that hold x.
Count(q, x) == Cardinality({k \in 1..Len(q) : q[k] = x})

(***************************************************************************)
(* C10: for a trace whose records have pairwise distinct ids,              *)
(* topological_sort_trace returns (after at most one loop iteration per    *)
(* record) a list without repeats that holds exactly the records of the    *)
(* trace that are neither on a trace-local cycle nor descendants of one;   *)
(* so the output of an acyclic trace is a permutation of it, and           *)
(* sorted_timeline holds every record of every complete acyclic trace      *)
(* with distinct ids exactly once.                                         *)
(***************************************************************************)
C10_Conservation ==
    /\ pc = "completeness" =>
          \A t \in 1..Len(traces) :
              LET tl == traces[t].val
                  out == topological_sort_trace(tl, log_index)
              IN DistinctIds(tl) =>
                  /\ NoRepeat(out)
                  /\ Len(out) <= Len(tl)
                  /\ Range(out) = {r \in Range(tl) : ~Stuck(tl, r)}
    /\ SortDone =>
          \A t \in 1..Len(complete_traces) :
              LET tl == complete_traces[t].val
                  out == SortedOf(complete_traces[t].key)
              IN DistinctIds(tl) =>
                  /\ NoRepeat(out)
                  /\ Range(out) = {r \in Range(tl) : ~Stuck(tl, r)}
    /\ pc = "done" =>
          \A t \in 1..Len(complete_traces) :
              LET tl == complete_traces[t].val
              IN DistinctIds(tl) /\ Acyclic(tl) =>
                  \A r \in Range(tl) : Count(output.sorted_timeline, r) = 1

\* A complete trace of three records with distinct ids, one of them on a
\* cycle, whose other two records come out in the reverse of the input order.
C10_Witness ==
    /\ pc = "done"
    /\ \E t \in 1..Len(complete_traces) :
          LET tl == complete_traces[t].val
              out == SortedOf(complete_traces[t].key)
          IN /\ DistinctIds(tl)
             /\ Len(tl) = 3
             /\ \E r \in Range(tl) : Stuck(tl, r)
             /\ Len(out) = 2
             /\ out[2] < out[1]
             /\ Range(out) \subseteq Range(output.sorted_timeline)

\* The valid record that carries id x last in the input.
LastWithId(x) ==
    CHOOSE i \in Range(valid_logs) :
        /\ LogId(i) = x
        /\ \A j \in Range(valid_logs) : LogId(j) = x => j <= i

ValidIds == {LogId(i) : i \in Range(valid_logs)}

\* The records of the trace with this id that are in the timeline.
InTimeline(trace_id) ==
    {x \in Range(output.sorted_timeline) : TraceId(x) = trace_id}

\* The trace-local edges A -> B of a trace with B.timestamp_ms < A.timestamp_ms.
SkewEdges(trace_logs) ==
    {e \in Range(trace_logs) \X Range(trace_logs) :
        Edge(trace_logs, e[1], e[2]) /\ Timestamp(e[2]) < Timestamp(e[1])}

(***************************************************************************)
(* C3, as stated: clock_skew_events_count is the number of trace-local     *)
(* edges A -> B of the complete traces with B.timestamp_ms <               *)
(* A.timestamp_ms, and nothing else is counted (not a reference that       *)
(* resolves only to a record of another trace).  (Stated on inputs whose   *)
(* ids are pairwise distinct and whose complete traces have no cycle, so   *)
(* that the sorter emits every record of every complete trace.)            *)
(***************************************************************************)
C3_Original ==
    (/\ pc = "done"
     /\ DistinctIds(valid_logs)
     /\ \A t \in 1..Len(complete_traces) : Acyclic(complete_traces[t].val)) =>
        output.clock_skew_events_count =
            Cardinality(UNION {SkewEdges(complete_traces[t].val) :
                                  t \in 1..Len(complete_traces)})

(***************************************************************************)
(* C3, amended: clock_skew_events_count is the number of records B in      *)
(* sorted_timeline (the records the sorter emitted for the complete        *)
(* traces) whose causal_ref is the id of a valid record of any trace and   *)
(* whose timestamp_ms is strictly less than that of the Index's record for *)
(* that id (the last valid record carrying it); each such record counts    *)
(* once.  A reference into another trace is counted; a record the sorter   *)
(* dropped is not.                                                         *)
(***************************************************************************)
C3_SkewCount ==
    pc = "done" =>
        output.clock_skew_events_count =
            Cardinality({B \in Range(output.sorted_timeline) :
                /\ CausalRef(B).k = "str"
                /\ CausalRef(B).s \in ValidIds
                /\ Timestamp(B) < Timestamp(LastWithId(CausalRef(B).s))})

\* One skew event is reported, no complete trace has a trace-local skew
\* edge, and the timeline holds a record that refers into another trace.
C3_Witness ==
    /\ pc = "done"
    /\ DistinctIds(valid_logs)
    /\ output.clock_skew_events_count = 1
    /\ \A t \in 1..Len(complete_traces) : SkewEdges(complete_traces[t].val) = {}
    /\ \E B \in Range(output.sorted_timeline) :
          /\ CausalRef(B).k = "str"
          /\ CausalRef(B).s \in ValidIds
          /\ TraceId(LastWithId(CausalRef(B).s)) # TraceId(B)
          /\ Timestamp(B) < Timestamp(LastWithId(CausalRef(B).s))

\* The least timestamp_ms among the records of a non-empty set.
MinOf(recs) == CHOOSE m \in {Timestamp(r) : r \in recs} :
                   \A r \in recs : m <= Timestamp(r)

\* Every timeline record of trace a comes before every one of trace b.
AllBefore(a, b) ==
    \A x \in InTimeline(a) : \A y \in InTimeline(b) :
        Before(output.sorted_timeline, x, y)

(***************************************************************************)
(* C4, as stated: for complete traces T1, T2 with the minimum timestamp_ms *)
(* of T1 strictly smaller than that of T2, every record of T1 in           *)
(* sorted_timeline comes before every record of T2.  (Stated on inputs     *)
(* whose ids are pairwise distinct.)                                       *)
(***************************************************************************)
C4_Original ==
    (pc = "done" /\ DistinctIds(valid_logs)) =>
        \A t1, t2 \in 1..Len(complete_traces) :
            MinOf(Range(complete_traces[t1].val))
                < MinOf(Range(complete_traces[t2].val))
            => AllBefore(complete_traces[t1].key, complete_traces[t2].key)

(***************************************************************************)
(* C4, amended: the minimum is taken over the records the sorter emitted   *)
(* for the trace (the trace's records in sorted_timeline), which is the    *)
(* trace's minimum only when the sorter dropped none: for complete traces  *)
(* T1, T2 with records in sorted_timeline, if the least timestamp_ms among *)
(* T1's records in the timeline is strictly smaller than the least among   *)
(* T2's, every record of T1 in the timeline comes before every record of   *)
(* T2; and the records of any two complete traces are never interleaved.   *)
(***************************************************************************)
C4_MergeOrder ==
    pc = "done" =>
        \A t1, t2 \in 1..Len(complete_traces) :
            LET a == complete_traces[t1].key
                b == complete_traces[t2].key
            IN /\ (/\ InTimeline(a) # {}
                   /\ InTimeline(b) # {}
                   /\ MinOf(InTimeline(a)) < MinOf(InTimeline(b)))
                  => AllBefore(a, b)
               /\ t1 # t2 => AllBefore(a, b) \/ AllBefore(b, a)

\* Two complete traces in the timeline, the one that comes second in the
\* input having the smaller minimum and coming first in the timeline.
C4_Witness ==
    /\ pc = "done"
    /\ \E t1, t2 \in 1..Len(complete_traces) :
          LET a == complete_traces[t1].key
              b == complete_traces[t2].key
          IN /\ t2 < t1
             /\ InTimeline(a) # {}
             /\ InTimeline(b) # {}
             /\ MinOf(InTimeline(a)) < MinOf(InTimeline(b))
             /\ TraceId(output.sorted_timeline[1]) = a
             /\ AllBefore(a, b)
             /\ Len(output.sorted_timeline) = Len(valid_logs)

HasEvent(trace_logs, et) == \E r \in Range(trace_logs) : EventType(r) = et

\* Some record of the trace refers to an id no valid record carries.
Dangling(trace_logs) ==
    \E r \in Range(trace_logs) :
        CausalRef(r).k = "str" /\ CausalRef(r).s \notin ValidIds

\* The trace does not pass the completeness check.
Fails(trace_logs) ==
    \/ ~HasEvent(trace_logs, "INIT")
    \/ ~HasEvent(trace_logs, "END")
    \/ Dangling(trace_logs)

(***************************************************************************)
(* C5: a trace that has no END record, and any trace that fails the        *)
(* completeness check, has its trace_id in anomaly_report.corrupted_traces *)
(* and no record in sorted_timeline; every record of sorted_timeline       *)
(* belongs to a trace that is not listed in corrupted_traces.              *)
(***************************************************************************)
C5_CorruptedExcluded ==
    pc = "done" =>
        /\ \A t \in 1..Len(traces) :
              Fails(traces[t].val) =>
                  /\ traces[t].key \in Range(output.corrupted_traces)
                  /\ InTimeline(traces[t].key) = {}
        /\ \A x \in Range(output.sorted_timeline) :
              TraceId(x) \notin Range(output.corrupted_traces)

\* A trace with an INIT record, no END record and no dangling reference is
\* listed as corrupted, next to a complete trace that fills the timeline.
C5_Witness ==
    /\ pc = "done"
    /\ \E t \in 1..Len(traces) :
          /\ HasEvent(traces[t].val, "INIT")
          /\ ~HasEvent(traces[t].val, "END")
          /\ ~Dangling(traces[t].val)
          /\ output.corrupted_traces = <<traces[t].key>>
    /\ Len(output.sorted_timeline) = 2

\* The record's causal_ref is non-null and is the id of no indexed record.
OrphanCond(r) == CausalRef(r).k = "str" /\ CausalRef(r).s \notin ValidIds

OrphansKnown == pc \in {"group", "completeness", "sort", "merge", "report", "done"}

(***************************************************************************)
(* C6, as stated: a valid record is in the orphan set (its id is, the set  *)
(* being a set of ids) if and only if its causal_ref is non-null and is    *)
(* not the id of any record in the Index.                                  *)
(***************************************************************************)
C6_Original ==
    OrphansKnown =>
        \A r \in Range(valid_logs) :
            LogId(r) \in orphaned_log_ids <=> OrphanCond(r)

(***************************************************************************)
(* C6, amended: the orphan set is a set of ids; an id is in it if and only *)
(* if some valid record carrying that id has a non-null causal_ref that is *)
(* not the id of any record in the Index, whatever the traces of the       *)
(* record and of the id referred to (so a record whose id no other valid   *)
(* record shares is in it iff its own causal_ref is such);                 *)
(* orphaned_logs_count is the number of these ids.                         *)
(***************************************************************************)
C6_Orphans ==
    /\ OrphansKnown =>
          /\ orphaned_log_ids = {LogId(r) : r \in {i \in Range(valid_logs) : OrphanCond(i)}}
          /\ \A r \in Range(valid_logs) :
                (\A j \in Range(valid_logs) : LogId(j) = LogId(r) => j = r)
                => (LogId(r) \in orphaned_log_ids <=> OrphanCond(r))
    /\ pc = "done" =>
          output.orphaned_logs_count =
              Cardinality({LogId(r) : r \in {i \in Range(valid_logs) : OrphanCond(i)}})

\* One record is an orphan, another refers to a record of another trace
\* only and is not, and the report counts one.
C6_Witness ==
    /\ pc = "done"
    /\ output.orphaned_logs_count = 1
    /\ \E r, q \in Range(valid_logs) :
          /\ OrphanCond(r)
          /\ LogId(r) \in orphaned_log_ids
          /\ CausalRef(q).k = "str"
          /\ CausalRef(q).s \in ValidIds
          /\ \A j \in Range(valid_logs) :
                LogId(j) = CausalRef(q).s => TraceId(j) # TraceId(q)
          /\ LogId(q) \notin orphaned_log_ids

Reason(trace_logs) == check_trace_completeness(trace_logs, log_index)

(***************************************************************************)
(* C9: check_trace_completeness returns missing_init when the trace has no *)
(* INIT record; else missing_end when it has no END record; else           *)
(* broken_causal_chain when some record's non-null causal_ref is the id of *)
(* no valid record of any trace; else complete; its flag is true exactly   *)
(* for complete.  A causal_ref that resolves only in another trace does    *)
(* not make a trace corrupted.  corrupted_traces lists the traces whose    *)
(* reason is not complete.                                                 *)
(***************************************************************************)
C9_ReasonPrecedence ==
    /\ pc = "completeness" =>
          \A t \in 1..Len(traces) :
              LET tl == traces[t].val
                  res == Reason(tl)
              IN /\ res[2] \in {"missing_init", "missing_end",
                                "broken_causal_chain", "complete"}
                 /\ res[2] = "missing_init" <=> ~HasEvent(tl, "INIT")
                 /\ res[2] = "missing_end" <=>
                       HasEvent(tl, "INIT") /\ ~HasEvent(tl, "END")
                 /\ res[2] = "broken_causal_chain" <=>
                       HasEvent(tl, "INIT") /\ HasEvent(tl, "END") /\ Dangling(tl)
                 /\ res[1] <=> res[2] = "complete"
    /\ pc = "sort" =>
          /\ Range(corrupted_traces) =
                {traces[t].key : t \in {u \in 1..Len(traces) : Fails(traces[u].val)}}
          /\ Keys(complete_traces) =
                {traces[t].key : t \in {u \in 1..Len(traces) : ~Fails(traces[u].val)}}

\* A trace without INIT and without END that has a dangling reference is
\* missing_init, next to a trace that refers into it and is complete.
C9_Witness ==
    /\ pc = "completeness"
    /\ \E t, u \in 1..Len(traces) :
          /\ ~HasEvent(traces[t].val, "INIT")
          /\ ~HasEvent(traces[t].val, "END")
          /\ Dangling(traces[t].val)
          /\ Reason(traces[t].val) = <<FALSE, "missing_init">>
          /\ \E r \in Range(traces[u].val) :
                /\ CausalRef(r).k = "str"
                /\ \E j \in Range(traces[t].val) : LogId(j) = CausalRef(r).s
          /\ Reason(traces[u].val) = <<TRUE, "complete">>

\* All eight required fields present and correctly typed, event_type in the
\* closed set.
SchemaOK(log) ==
    /\ log.isdict
    /\ \A f \in Range(REQUIRED_FIELDS) : log[f].k # "absent"
    /\ log.log_id.k = "str" /\ log.log_id.s # ""
    /\ log.trace_id.k = "str" /\ log.trace_id.s # ""
    /\ log.node_id.k = "str"
    /\ log.event_type.k = "str" /\ log.event_type.s \in {"INIT", "PROCESS", "END"}
    /\ log.timestamp_ms.k = "num"
    /\ log.logical_clock.k = "num"
    /\ log.payload.k = "obj"
    /\ log.causal_ref.k \in {"null", "str"}

\* The record's id is a non-empty string.
UsableId(log) == log.isdict /\ log.log_id.k = "str" /\ log.log_id.s # ""

Accepted == {k \in 1..Len(raw_logs) : SchemaOK(raw_logs[k])}
Reportable == {k \in 1..Len(raw_logs) : ~SchemaOK(raw_logs[k]) /\ UsableId(raw_logs[k])}

\* valid_logs and malformed_logs partition the raw records as C7 says.
Partitioned ==
    /\ Range(valid_logs) = Accepted
    /\ Len(malformed_logs) = Cardinality(Reportable)
    /\ Range(malformed_logs) = {raw_logs[k].log_id.s : k \in Reportable}

(***************************************************************************)
(* C7, as stated: every raw record is either accepted, which it is exactly *)
(* when all eight required fields are present and correctly typed and      *)
(* event_type is INIT, PROCESS or END, or excluded from all downstream     *)
(* processing; a rejected record with a non-empty string id has its id in  *)
(* malformed_logs, one without is dropped, and no accepted record is       *)
(* reported.                                                               *)
(***************************************************************************)
C7_Original ==
    /\ pc # "crashed"
    /\ pc = "done" =>
          /\ Partitioned
          /\ Range(output.sorted_timeline) \subseteq Accepted
          /\ Range(output.malformed_logs) = {raw_logs[k].log_id.s : k \in Reportable}

\* No event_type is a list or an object and no number is a JSON boolean.
PlainInput ==
    \A k \in 1..Len(raw_logs) :
        /\ ~Unhashable(raw_logs[k].event_type)
        /\ raw_logs[k].timestamp_ms.k # "bool"
        /\ raw_logs[k].logical_clock.k # "bool"

\* On the other inputs the partition of C7 holds.
ValidationOnPlainInput == PlainInput => C7_Original

IndexKnown == pc \notin {"validate", "index", "crashed"}

(***************************************************************************)
(* C8, as stated: when valid records share an id the Index maps the id to  *)
(* the one that comes last in the input, and the sorter's edge             *)
(* construction resolves a causal_ref to that record: a record B of a      *)
(* complete trace whose causal_ref is an id of its trace is ordered after  *)
(* the Index's record for that id.                                         *)
(***************************************************************************)
C8_Original ==
    /\ IndexKnown =>
          /\ DOMAIN log_index = ValidIds
          /\ \A x \in ValidIds : log_index[x] = LastWithId(x)
    /\ SortDone =>
          \A t \in 1..Len(complete_traces) :
              LET tl == complete_traces[t].val
                  out == SortedOf(complete_traces[t].key)
              IN \A B \in Range(out) :
                    /\ CausalRef(B).k = "str"
                    /\ CausalRef(B).s \in {LogId(r) : r \in Range(tl)}
                    => Before(out, log_index[CausalRef(B).s], B)
====
